---------------------------- MODULE Spec2Model ----------------------------
(***************************************************************************)
(* Community Connect: a Flask application over a single-file SQLite        *)
(* database.                                                               *)
(*                                                                         *)
(*   deliverable2/database.py  data access layer and validation utilities  *)
(*   deliverable2/app.py       request handlers                            *)
(*   deliverable3/database.py  the same layer plus the reporting queries   *)
(*                                                                         *)
(* Strings are sequences of one-character strings, so that strip, replace, *)
(* split, isdigit and strptime are computed character by character.        *)
(***************************************************************************)
EXTENDS Integers, Sequences, FiniteSets, TLC

VARIABLES
    db,         \* the database file: one field per table
    today,      \* datetime.now().date() as <<year, month, day>>
    openConns,  \* connections opened by sqlite3.connect and never closed
    req,        \* the requests being handled, one record per slot
    report,     \* the result of the last reporting query
    vcall       \* the last call of a validation utility

vars == <<db, today, openConns, req, report, vcall>>

---------------------------------------------------------------------------
(* Python values.                                                          *)

None == [tag |-> "None"]
IntV(n) == [tag |-> "int", val |-> n]
RowsV(s) == [tag |-> "rows", val |-> s]
RowV(r) == [tag |-> "row", val |-> r]
BoolV(b) == [tag |-> "bool", val |-> b]

\* bool(v): None, 0 and the empty list are false.
Truthy(v) ==
    CASE v.tag = "None" -> FALSE
      [] v.tag = "int"  -> v.val # 0
      [] v.tag = "rows" -> Len(v.val) > 0
      [] v.tag = "bool" -> v.val
      [] OTHER          -> TRUE

---------------------------------------------------------------------------
(* Python str operations.                                                  *)

DecimalDigits == {"0", "1", "2", "3", "4", "5", "6", "7", "8", "9"}

\* Characters outside 0-9 for which str.isdigit() is true: SUPERSCRIPT TWO
\* (a digit that is not a decimal) and ARABIC-INDIC DIGIT FIVE (a decimal
\* digit of another script).
UnicodeDigits == {"SUPERSCRIPT_TWO", "ARABIC_INDIC_FIVE"}

\* Characters str.strip() removes.
Whitespace == {" ", "TAB"}

RECURSIVE Replace(_, _)
\* s.replace(c, '')
Replace(s, c) ==
    IF s = <<>> THEN <<>>
    ELSE IF Head(s) = c THEN Replace(Tail(s), c)
    ELSE <<Head(s)>> \o Replace(Tail(s), c)

RECURSIVE LStrip(_)
LStrip(s) ==
    IF s # <<>> /\ Head(s) \in Whitespace THEN LStrip(Tail(s)) ELSE s

RECURSIVE RStrip(_)
RStrip(s) ==
    IF s # <<>> /\ s[Len(s)] \in Whitespace
    THEN RStrip(SubSeq(s, 1, Len(s) - 1)) ELSE s

\* s.strip()
Strip(s) == RStrip(LStrip(s))

\* c in s
Contains(s, c) == \E i \in 1..Len(s) : s[i] = c

RECURSIVE Split(_, _)
\* s.split(sep): the list of the pieces between the separators.
Split(s, sep) ==
    IF ~Contains(s, sep) THEN <<s>>
    ELSE LET i == CHOOSE k \in 1..Len(s) :
                      s[k] = sep /\ \A j \in 1..(k - 1) : s[j] # sep
         IN <<SubSeq(s, 1, i - 1)>> \o Split(SubSeq(s, i + 1, Len(s)), sep)

\* lst[-1]
Last(lst) == lst[Len(lst)]

\* One character of str.isdigit().
IsDigitChar(c) == c \in DecimalDigits \cup UnicodeDigits

\* s.isdigit(): every character is a digit and there is at least one.
IsDigit(s) == s # <<>> /\ \A i \in 1..Len(s) : IsDigitChar(s[i])

---------------------------------------------------------------------------
(* Validation utilities.                                                   *)

MinPhoneDigits == 10

\* A faulty variant: the dot may stand anywhere.
validate_email_any_dot(email) ==
    Contains(email, "@") /\ Contains(email, ".")

validate_email(email) ==
    Contains(email, "@") /\ Contains(Last(Split(email, "@")), ".")

clean_phone(phone) ==
    Replace(Replace(Replace(Replace(phone, "-"), " "), "("), ")")

validate_phone(phone) ==
    IsDigit(clean_phone(phone)) /\ Len(clean_phone(phone)) >= MinPhoneDigits

---------------------------------------------------------------------------
(* datetime.strptime(date_of_birth, '%Y-%m-%d') and date comparison.       *)

DigitValue(c) ==
    CASE c = "0" -> 0 [] c = "1" -> 1 [] c = "2" -> 2 [] c = "3" -> 3
      [] c = "4" -> 4 [] c = "5" -> 5 [] c = "6" -> 6 [] c = "7" -> 7
      [] c = "8" -> 8 [] c = "9" -> 9

AllDecimal(s) == \A i \in 1..Len(s) : s[i] \in DecimalDigits

RECURSIVE ParseInt(_)
ParseInt(s) ==
    IF s = <<>> THEN 0
    ELSE 10 * ParseInt(SubSeq(s, 1, Len(s) - 1)) + DigitValue(s[Len(s)])

IsLeap(y) == (y % 4 = 0 /\ y % 100 # 0) \/ y % 400 = 0

DaysInMonth(y, m) ==
    IF m = 2 THEN (IF IsLeap(y) THEN 29 ELSE 28)
    ELSE IF m \in {4, 6, 9, 11} THEN 30 ELSE 31

\* %Y is four digits; %m is 1[0-2]|0[1-9]|[1-9]; %d is
\* 3[01]|[12]\d|0[1-9]|[1-9]| [1-9]; the whole string must be consumed and
\* the fields must name a day of the calendar (year 1 at least).
YearField(p) == Len(p) = 4 /\ AllDecimal(p)
MonthField(p) == Len(p) \in {1, 2} /\ AllDecimal(p) /\ ParseInt(p) \in 1..12
DayDigits(p) == IF Len(p) = 2 /\ p[1] = " " THEN <<p[2]>> ELSE p
DayField(p) ==
    \/ Len(p) \in {1, 2} /\ AllDecimal(p) /\ ParseInt(p) \in 1..31
    \/ Len(p) = 2 /\ p[1] = " " /\ p[2] \in DecimalDigits \ {"0"}

\* ok = FALSE stands for ValueError.
strptime(s) ==
    LET parts == Split(s, "-")
        wellFormed == /\ Len(parts) = 3
                      /\ YearField(parts[1])
                      /\ MonthField(parts[2])
                      /\ DayField(parts[3])
    IN IF ~wellFormed THEN [ok |-> FALSE, date |-> <<0, 0, 0>>]
       ELSE LET y == ParseInt(parts[1])
                m == ParseInt(parts[2])
                d == ParseInt(DayDigits(parts[3]))
            IN IF y >= 1 /\ d <= DaysInMonth(y, m)
               THEN [ok |-> TRUE, date |-> <<y, m, d>>]
               ELSE [ok |-> FALSE, date |-> <<0, 0, 0>>]

DateLess(a, b) ==
    \/ a[1] < b[1]
    \/ a[1] = b[1] /\ a[2] < b[2]
    \/ a[1] = b[1] /\ a[2] = b[2] /\ a[3] < b[3]

\* dob.date() >= datetime.now().date()
DateGeq(a, b) == ~DateLess(a, b)

---------------------------------------------------------------------------
(* String order of ORDER BY (SQLite's BINARY collation: byte by byte, a    *)
(* proper prefix first).                                                   *)

CharOrder ==
    <<"TAB", " ", "(", ")", "-", ".",
      "0", "1", "2", "3", "4", "5", "6", "7", "8", "9", "@",
      "A", "B", "C", "D", "E", "F", "G", "H", "I", "J", "K", "L", "M",
      "N", "O", "P", "Q", "R", "S", "T", "U", "V", "W", "X", "Y", "Z",
      "a", "b", "c", "d", "e", "f", "g", "h", "i", "j", "k", "l", "m",
      "n", "o", "p", "q", "r", "s", "t", "u", "v", "w", "x", "y", "z",
      "SUPERSCRIPT_TWO", "ARABIC_INDIC_FIVE">>

CharCode(c) == CHOOSE i \in 1..Len(CharOrder) : CharOrder[i] = c

RECURSIVE StrLess(_, _)
StrLess(a, b) ==
    IF b = <<>> THEN FALSE
    ELSE IF a = <<>> THEN TRUE
    ELSE IF Head(a) = Head(b) THEN StrLess(Tail(a), Tail(b))
    ELSE CharCode(Head(a)) < CharCode(Head(b))

RECURSIVE SetToSeq(_)
SetToSeq(S) ==
    IF S = {} THEN <<>>
    ELSE LET x == CHOOSE y \in S : TRUE IN <<x>> \o SetToSeq(S \ {x})

---------------------------------------------------------------------------
(* The database: db is a record with one field per table, each a set of    *)
(* rows.  Columns no statement computes with (descriptions, addresses of   *)
(* organisations, registration dates) are left out of the rows.            *)

\* PRAGMA foreign_keys = ON, issued on every connection.
ForeignKeysOn == TRUE

\* A faulty variant: the references to EVENT declared ON DELETE CASCADE.
OnDeleteEventCascade == "CASCADE"

\* The schema file is not among the sources.  The specification names no
\* cascade for the association rows of an event, so the references to EVENT
\* carry no ON DELETE clause: SQLite's default action, NO ACTION.
OnDeleteEvent == "NO ACTION"

ExpectedTables ==
    {"VOLUNTEER", "ORGANISATION", "SKILL", "EVENT", "VOLUNTEER_EVENT",
     "VOLUNTEER_SKILL", "EVENT_SKILL"}

Max(S) == CHOOSE x \in S : \A y \in S : y <= x

\* The rowid SQLite gives an inserted row: one more than the largest in use.
NextRowId(rows) ==
    IF rows = {} THEN 1 ELSE Max({r.volunteer_id : r \in rows}) + 1

\* ORDER BY last_name, first_name (rows that tie come in rowid order).
VolunteerBefore(a, b) ==
    \/ StrLess(a.last_name, b.last_name)
    \/ /\ a.last_name = b.last_name
       /\ \/ StrLess(a.first_name, b.first_name)
          \/ a.first_name = b.first_name /\ a.volunteer_id < b.volunteer_id

\* ORDER BY org_name
OrganisationBefore(a, b) ==
    \/ StrLess(a.org_name, b.org_name)
    \/ a.org_name = b.org_name /\ a.org_id < b.org_id

\* ORDER BY e.start_date
EventBefore(a, b) ==
    \/ StrLess(a.start_date, b.start_date)
    \/ a.start_date = b.start_date /\ a.event_id < b.event_id

\* The result of running one statement on the database d: error is a
\* constraint violation raised by cursor.execute, rows what fetchall()
\* returns, rowcount and lastrowid the cursor's, db the database once the
\* statement is committed.
Stmt(error, rows, rowcount, lastrowid, d) ==
    [error |-> error, rows |-> rows, rowcount |-> rowcount,
     lastrowid |-> lastrowid, db |-> d]

\* INSERT INTO VOLUNTEER (first_name, ..., address) VALUES (?, ?, ?, ?, ?, ?)
SqlInsertVolunteer(d, first_name, last_name, date_of_birth, email, phone, address) ==
    LET id == NextRowId(d.VOLUNTEER)
        row == [volunteer_id |-> id, first_name |-> first_name,
                last_name |-> last_name, date_of_birth |-> date_of_birth,
                email |-> email, phone |-> phone, address |-> address]
    IN Stmt(FALSE, <<>>, 1, id, [d EXCEPT !.VOLUNTEER = @ \cup {row}])

\* SELECT ... FROM VOLUNTEER ORDER BY last_name, first_name
SqlSelectAllVolunteers(d) ==
    Stmt(FALSE, SortSeq(SetToSeq(d.VOLUNTEER), VolunteerBefore), -1, 0, d)

\* SELECT ... FROM VOLUNTEER WHERE volunteer_id = ?
SqlSelectVolunteerById(d, volunteer_id) ==
    Stmt(FALSE, SetToSeq({r \in d.VOLUNTEER : r.volunteer_id = volunteer_id}),
         -1, 0, d)

\* UPDATE VOLUNTEER SET phone = ? WHERE volunteer_id = ?
SqlUpdateVolunteerPhone(d, volunteer_id, new_phone) ==
    LET hit == {r \in d.VOLUNTEER : r.volunteer_id = volunteer_id}
        rest == d.VOLUNTEER \ hit
    IN Stmt(FALSE, <<>>, Cardinality(hit), 0,
            [d EXCEPT !.VOLUNTEER =
                 rest \cup {[r EXCEPT !.phone = new_phone] : r \in hit}])

\* SELECT ... FROM ORGANISATION ORDER BY org_name
SqlSelectAllOrganisations(d) ==
    Stmt(FALSE, SortSeq(SetToSeq(d.ORGANISATION), OrganisationBefore), -1, 0, d)

\* FROM EVENT e JOIN ORGANISATION o ON e.org_id = o.org_id
EventJoinOrganisation(d) ==
    {[event_id |-> e.event_id, event_name |-> e.event_name,
      start_date |-> e.start_date, max_volunteers |-> e.max_volunteers,
      org_name |-> o.org_name, org_id |-> o.org_id] :
        <<e, o>> \in {p \in d.EVENT \X d.ORGANISATION : p[1].org_id = p[2].org_id}}

\* SELECT ... FROM EVENT e JOIN ORGANISATION o ... ORDER BY e.start_date
SqlSelectAllEvents(d) ==
    Stmt(FALSE, SortSeq(SetToSeq(EventJoinOrganisation(d)), EventBefore), -1, 0, d)

\* SELECT ... FROM EVENT e JOIN ORGANISATION o ... WHERE e.event_id = ?
SqlSelectEventById(d, event_id) ==
    Stmt(FALSE, SetToSeq({r \in EventJoinOrganisation(d) : r.event_id = event_id}),
         -1, 0, d)

\* DELETE FROM EVENT WHERE event_id = ?
\* With foreign keys enforced, a row of VOLUNTEER_EVENT that references the
\* event makes the statement fail (NO ACTION) or goes with it (CASCADE).
SqlDeleteEvent(d, event_id) ==
    LET hit == {e \in d.EVENT : e.event_id = event_id}
        refs == {ve \in d.VOLUNTEER_EVENT : ve.event_id = event_id}
    IN IF hit # {} /\ refs # {} /\ ForeignKeysOn /\ OnDeleteEvent = "NO ACTION"
       THEN Stmt(TRUE, <<>>, -1, 0, d)
       ELSE IF ForeignKeysOn /\ OnDeleteEvent = "CASCADE" /\ hit # {}
       THEN Stmt(FALSE, <<>>, Cardinality(hit), 0,
                 [d EXCEPT !.EVENT = @ \ hit, !.VOLUNTEER_EVENT = @ \ refs])
       ELSE Stmt(FALSE, <<>>, Cardinality(hit), 0, [d EXCEPT !.EVENT = @ \ hit])

\* SELECT name FROM sqlite_master WHERE type='table'
SqlSelectTables(d) == Stmt(FALSE, SetToSeq(d.tables), -1, 0, d)

---------------------------------------------------------------------------
(* Data access layer.  A storage fault is an input of each call: the place *)
(* where sqlite3.Error is raised, or "none".  The outcome of a call is     *)
(*   ret     the value returned,                                           *)
(*   db      the database after the call,                                  *)
(*   open    the connections the call opened and did not close,            *)
(*   raised  whether an sqlite3.Error left the function.                   *)

FetchFaults == {"none", "connect", "pragma", "execute", "fetch"}
WriteFaults == {"none", "connect", "pragma", "execute", "commit"}

Outcome(ret, d, open, raised) ==
    [ret |-> ret, db |-> d, open |-> open, raised |-> raised]

\* conn: a connection is returned (None otherwise); open: one was created.
\* Both sqlite3.connect and the PRAGMA are inside the try; the except
\* returns None without closing what connect returned.
get_db_connection(fault) ==
    IF fault = "connect" THEN [conn |-> FALSE, open |-> 0, raised |-> FALSE]
    ELSE IF fault = "pragma" THEN [conn |-> FALSE, open |-> 1, raised |-> FALSE]
    ELSE [conn |-> TRUE, open |-> 1, raised |-> FALSE]

\* A faulty variant: conn.commit() outside the try block.
execute_query_commit_unguarded(d, stmt, fetch, fault) ==
    LET c == get_db_connection(fault)
    IN IF ~c.conn THEN Outcome(None, d, c.open, c.raised)
       ELSE IF fault = "execute" \/ stmt.error
       THEN Outcome(None, d, c.open - 1, FALSE)
       ELSE IF fetch
       THEN (IF fault = "fetch" THEN Outcome(None, d, c.open - 1, FALSE)
             ELSE Outcome(RowsV(stmt.rows), d, c.open - 1, FALSE))
       ELSE (IF fault = "commit" THEN Outcome(None, d, c.open, TRUE)
             ELSE Outcome(IntV(stmt.rowcount), stmt.db, c.open - 1, FALSE))

\* A faulty variant: what was executed stays when the commit fails.
execute_query_no_rollback(d, stmt, fetch, fault) ==
    LET c == get_db_connection(fault)
    IN IF ~c.conn THEN Outcome(None, d, c.open, c.raised)
       ELSE IF fault = "execute" \/ stmt.error
       THEN Outcome(None, d, c.open - 1, FALSE)
       ELSE IF fetch
       THEN (IF fault = "fetch" THEN Outcome(None, d, c.open - 1, FALSE)
             ELSE Outcome(RowsV(stmt.rows), d, c.open - 1, FALSE))
       ELSE (IF fault = "commit" THEN Outcome(None, stmt.db, c.open - 1, FALSE)
             ELSE Outcome(IntV(stmt.rowcount), stmt.db, c.open - 1, FALSE))

\* execute_query(query, params, fetch): stmt is the statement's result on d.
\* Every path after the connection is obtained closes it; a statement that
\* was executed and not committed is rolled back by close().
execute_query(d, stmt, fetch, fault) ==
    LET c == get_db_connection(fault)
    IN IF ~c.conn THEN Outcome(None, d, c.open, c.raised)
       ELSE IF fault = "execute" \/ stmt.error
       THEN Outcome(None, d, c.open - 1, FALSE)
       ELSE IF fetch
       THEN (IF fault = "fetch" THEN Outcome(None, d, c.open - 1, FALSE)
             ELSE Outcome(RowsV(stmt.rows), d, c.open - 1, FALSE))
       ELSE (IF fault = "commit" THEN Outcome(None, d, c.open - 1, FALSE)
             ELSE Outcome(IntV(stmt.rowcount), stmt.db, c.open - 1, FALSE))

\* results[0] if results else None
FirstOrNone(o) ==
    [o EXCEPT !.ret = IF Truthy(o.ret) THEN RowV(o.ret.val[1]) ELSE None]

\* A faulty variant: first_name and last_name bound in the wrong order.
create_volunteer_swapped(d, first_name, last_name, date_of_birth, email, phone, address, fault) ==
    LET c == get_db_connection(fault)
        stmt == SqlInsertVolunteer(d, last_name, first_name, date_of_birth,
                                   email, phone, address)
    IN IF ~c.conn THEN Outcome(None, d, c.open, c.raised)
       ELSE IF fault \in {"execute", "commit"} \/ stmt.error
       THEN Outcome(None, d, c.open - 1, FALSE)
       ELSE Outcome(IntV(stmt.lastrowid), stmt.db, c.open - 1, FALSE)

create_volunteer(d, first_name, last_name, date_of_birth, email, phone, address, fault) ==
    LET c == get_db_connection(fault)
        stmt == SqlInsertVolunteer(d, first_name, last_name, date_of_birth,
                                   email, phone, address)
    IN IF ~c.conn THEN Outcome(None, d, c.open, c.raised)
       ELSE IF fault \in {"execute", "commit"} \/ stmt.error
       THEN Outcome(None, d, c.open - 1, FALSE)
       ELSE Outcome(IntV(stmt.lastrowid), stmt.db, c.open - 1, FALSE)

get_all_volunteers(d, fault) ==
    execute_query(d, SqlSelectAllVolunteers(d), TRUE, fault)

get_volunteer_by_id(d, volunteer_id, fault) ==
    FirstOrNone(execute_query(d, SqlSelectVolunteerById(d, volunteer_id), TRUE, fault))

update_volunteer_phone(d, volunteer_id, new_phone, fault) ==
    execute_query(d, SqlUpdateVolunteerPhone(d, volunteer_id, new_phone), FALSE, fault)

get_all_organisations(d, fault) ==
    execute_query(d, SqlSelectAllOrganisations(d), TRUE, fault)

get_all_events(d, fault) ==
    execute_query(d, SqlSelectAllEvents(d), TRUE, fault)

get_event_by_id(d, event_id, fault) ==
    FirstOrNone(execute_query(d, SqlSelectEventById(d, event_id), TRUE, fault))

delete_event(d, event_id, fault) ==
    execute_query(d, SqlDeleteEvent(d, event_id), FALSE, fault)

\* Returns a bool: True when the seven expected tables exist.
test_database_connection(d, fault) ==
    LET c == get_db_connection(fault)
        stmt == SqlSelectTables(d)
    IN IF ~c.conn THEN Outcome(BoolV(FALSE), d, c.open, c.raised)
       ELSE IF fault \in {"execute", "fetch"} \/ stmt.error
       THEN Outcome(BoolV(FALSE), d, c.open - 1, FALSE)
       ELSE Outcome(BoolV(ExpectedTables \subseteq
                              {stmt.rows[i] : i \in 1..Len(stmt.rows)}),
                    d, c.open - 1, FALSE)

---------------------------------------------------------------------------
(* Request handlers.  A request is a record: what was asked (kind, method, *)
(* id, form), where the handler stands (pc), the data access calls it made *)
(* so far (calls), the row its lookup found, and its answer (flashes,      *)
(* resp).  A handler that makes two data access calls takes two steps, one *)
(* per call; everything else it does is part of the step.                  *)

EmptyForm ==
    [first_name |-> <<>>, last_name |-> <<>>, date_of_birth |-> <<>>,
     email |-> <<>>, phone |-> <<>>, address |-> <<>>]

NoResp == [kind |-> "none", target |-> "", ctx |-> <<>>]
Render(template, ctx) == [kind |-> "render", target |-> template, ctx |-> ctx]
Redirect(endpoint) == [kind |-> "redirect", target |-> endpoint, ctx |-> <<>>]
\* An exception that leaves a handler is answered by the 500 handler.
ServerError == [kind |-> "error", target |-> "error.html", ctx |-> <<500>>]

Flash(msg, category, args) == [msg |-> msg, category |-> category, args |-> args]

Call(op, fault, o) == [op |-> op, fault |-> fault, ret |-> o.ret, raised |-> o.raised]

IdleReq ==
    [kind |-> "idle", method |-> "GET", pc |-> "idle", id |-> 0,
     form |-> EmptyForm, found |-> None, calls |-> <<>>, flashes |-> <<>>,
     resp |-> NoResp]

Request(kind, method, id, form) ==
    [IdleReq EXCEPT !.kind = kind, !.method = method, !.id = id, !.form = form]

Answer(rq, calls, flashes, resp) ==
    [rq EXCEPT !.pc = "done", !.calls = calls, !.flashes = flashes, !.resp = resp]

\* request.form.get(name, '').strip() for each field
StripForm(form) ==
    [first_name |-> Strip(form.first_name), last_name |-> Strip(form.last_name),
     date_of_birth |-> Strip(form.date_of_birth), email |-> Strip(form.email),
     phone |-> Strip(form.phone), address |-> Strip(form.address)]

Msg(cond, text) == IF cond THEN <<text>> ELSE <<>>

\* A faulty variant: a date of birth equal to today is let through.
DateOfBirthErrorsLax(date_of_birth, now) ==
    LET p == strptime(date_of_birth)
    IN IF ~p.ok THEN <<"Invalid date format">>
       ELSE Msg(DateLess(now, p.date), "Date of birth must be in the past")

\* try: strptime; if dob.date() >= now.date(): ...; except ValueError: ...
DateOfBirthErrors(date_of_birth, now) ==
    LET p == strptime(date_of_birth)
    IN IF ~p.ok THEN <<"Invalid date format">>
       ELSE Msg(DateGeq(p.date, now), "Date of birth must be in the past")

\* A faulty variant: the address is not required.
NewVolunteerErrorsNoAddress(f, now) ==
    Msg(f.first_name = <<>>, "First name is required")
    \o Msg(f.last_name = <<>>, "Last name is required")
    \o Msg(f.date_of_birth = <<>>, "Date of birth is required")
    \o Msg(f.email = <<>> \/ ~validate_email(f.email), "Valid email address is required")
    \o Msg(f.phone = <<>> \/ ~validate_phone(f.phone), "Valid phone number is required")
    \o DateOfBirthErrors(f.date_of_birth, now)

\* The errors list of new_volunteer, in the order the checks append to it.
NewVolunteerErrors(f, now) ==
    Msg(f.first_name = <<>>, "First name is required")
    \o Msg(f.last_name = <<>>, "Last name is required")
    \o Msg(f.date_of_birth = <<>>, "Date of birth is required")
    \o Msg(f.email = <<>> \/ ~validate_email(f.email), "Valid email address is required")
    \o Msg(f.phone = <<>> \/ ~validate_phone(f.phone), "Valid phone number is required")
    \o Msg(f.address = <<>>, "Address is required")
    \o DateOfBirthErrors(f.date_of_birth, now)

Step(rq, d, open) == [req |-> rq, db |-> d, open |-> open]

\* new_volunteer(): GET shows the form; POST validates and, with no error,
\* calls create_volunteer.
new_volunteer(method, form, d, now, fault) ==
    LET rq == Request("new_volunteer", method, 0, form)
        f == StripForm(form)
        errors == NewVolunteerErrors(f, now)
    IN IF method = "GET"
       THEN Step(Answer(rq, <<>>, <<>>, Render("new_volunteer.html", <<>>)), d, 0)
       ELSE IF errors # <<>>
       THEN Step(Answer(rq, <<>>,
                        [i \in 1..Len(errors) |-> Flash(errors[i], "error", <<>>)],
                        Render("new_volunteer.html", <<f>>)), d, 0)
       ELSE LET o == create_volunteer(d, f.first_name, f.last_name, f.date_of_birth,
                                      f.email, f.phone, f.address, fault)
                calls == <<Call("create_volunteer", fault, o)>>
            IN IF o.raised THEN Step(Answer(rq, calls, <<>>, ServerError), o.db, o.open)
               ELSE IF Truthy(o.ret)
               THEN Step(Answer(rq, calls,
                                <<Flash("Volunteer created successfully!", "success",
                                        <<f.first_name, f.last_name>>)>>,
                                Redirect("view_volunteers")), o.db, o.open)
               ELSE Step(Answer(rq, calls,
                                <<Flash("Error creating volunteer. Please check your input and try again.",
                                        "error", <<>>)>>,
                                Render("new_volunteer.html", <<f>>)), o.db, o.open)

\* A list view: one call; None is shown as an empty list with a message.
ListView(kind, op, o, fault, template, failure) ==
    LET rq == Request(kind, "GET", 0, EmptyForm)
        calls == <<Call(op, fault, o)>>
    IN IF o.raised THEN Step(Answer(rq, calls, <<>>, ServerError), o.db, o.open)
       ELSE IF o.ret = None
       THEN Step(Answer(rq, calls, <<Flash(failure, "error", <<>>)>>,
                        Render(template, <<>>)), o.db, o.open)
       ELSE Step(Answer(rq, calls, <<>>, Render(template, o.ret.val)), o.db, o.open)

view_organisations(d, fault) ==
    ListView("view_organisations", "get_all_organisations",
             get_all_organisations(d, fault), fault, "view_organisations.html",
             "Error retrieving organisations from database")

view_volunteers(d, fault) ==
    ListView("view_volunteers", "get_all_volunteers",
             get_all_volunteers(d, fault), fault, "view_volunteers.html",
             "Error retrieving volunteers from database")

view_events(d, fault) ==
    ListView("view_events", "get_all_events",
             get_all_events(d, fault), fault, "view_events.html",
             "Error retrieving events from database")

\* len(x) if x else 0
CountOf(v) == IF Truthy(v) THEN Len(v.val) ELSE 0

\* A faulty variant: the dashboard without its connection test.
index_without_test(d, faults) ==
    LET rq == Request("index", "GET", 0, EmptyForm)
        o2 == get_all_volunteers(d, faults[2])
        o3 == get_all_organisations(o2.db, faults[3])
        o4 == get_all_events(o3.db, faults[4])
        calls == <<Call("get_all_volunteers", faults[2], o2),
                   Call("get_all_organisations", faults[3], o3),
                   Call("get_all_events", faults[4], o4)>>
    IN Step(Answer(rq, calls, <<>>,
                   Render("index.html",
                          <<BoolV(TRUE), CountOf(o2.ret), CountOf(o3.ret), CountOf(o4.ret)>>)),
            o4.db, o2.open + o3.open + o4.open)

\* index(): the connection test and the three lists, one call after the
\* other; faults is the fault of each of the four calls.
index(d, faults) ==
    LET rq == Request("index", "GET", 0, EmptyForm)
        o1 == test_database_connection(d, faults[1])
        o2 == get_all_volunteers(o1.db, faults[2])
        o3 == get_all_organisations(o2.db, faults[3])
        o4 == get_all_events(o3.db, faults[4])
        c1 == <<Call("test_database_connection", faults[1], o1)>>
        c2 == c1 \o <<Call("get_all_volunteers", faults[2], o2)>>
        c3 == c2 \o <<Call("get_all_organisations", faults[3], o3)>>
        c4 == c3 \o <<Call("get_all_events", faults[4], o4)>>
    IN IF o1.raised THEN Step(Answer(rq, c1, <<>>, ServerError), o1.db, o1.open)
       ELSE IF o2.raised
       THEN Step(Answer(rq, c2, <<>>, ServerError), o2.db, o1.open + o2.open)
       ELSE IF o3.raised
       THEN Step(Answer(rq, c3, <<>>, ServerError), o3.db,
                 o1.open + o2.open + o3.open)
       ELSE IF o4.raised
       THEN Step(Answer(rq, c4, <<>>, ServerError), o4.db,
                 o1.open + o2.open + o3.open + o4.open)
       ELSE Step(Answer(rq, c4, <<>>,
                        Render("index.html",
                               <<o1.ret, CountOf(o2.ret), CountOf(o3.ret), CountOf(o4.ret)>>)),
                 o4.db, o1.open + o2.open + o3.open + o4.open)

\* A faulty variant: the submitted phone is validated before the lookup.
update_volunteer_contact_validate_first(method, volunteer_id, form, d, fault) ==
    LET rq == Request("update_volunteer_contact", method, volunteer_id, form)
        new_phone == Strip(form.phone)
        o == get_volunteer_by_id(d, volunteer_id, fault)
        calls == <<Call("get_volunteer_by_id", fault, o)>>
        found == [rq EXCEPT !.found = o.ret]
    IN IF method = "POST" /\ new_phone = <<>>
       THEN Step(Answer(rq, <<>>, <<Flash("Phone number is required", "error", <<>>)>>,
                        Render("update_volunteer_phone.html", <<None, new_phone>>)),
                 d, 0)
       ELSE IF method = "POST" /\ ~validate_phone(new_phone)
       THEN Step(Answer(rq, <<>>,
                        <<Flash("Please enter a valid phone number", "error", <<>>)>>,
                        Render("update_volunteer_phone.html", <<None, new_phone>>)),
                 d, 0)
       ELSE IF o.raised THEN Step(Answer(rq, calls, <<>>, ServerError), o.db, o.open)
       ELSE IF ~Truthy(o.ret)
       THEN Step(Answer(rq, calls, <<Flash("Volunteer not found", "error", <<>>)>>,
                        Redirect("view_volunteers")), o.db, o.open)
       ELSE IF method = "POST"
       THEN Step([found EXCEPT !.pc = "write", !.calls = calls], o.db, o.open)
       ELSE Step(Answer(found, calls, <<>>,
                        Render("update_volunteer_phone.html", <<o.ret>>)),
                 o.db, o.open)

\* update_volunteer_contact(), up to its second call: the lookup, which
\* comes first for GET and POST alike, and for POST the validation of the
\* submitted phone.
update_volunteer_contact(method, volunteer_id, form, d, fault) ==
    LET rq == Request("update_volunteer_contact", method, volunteer_id, form)
        new_phone == Strip(form.phone)
        o == get_volunteer_by_id(d, volunteer_id, fault)
        calls == <<Call("get_volunteer_by_id", fault, o)>>
        found == [rq EXCEPT !.found = o.ret]
    IN IF o.raised THEN Step(Answer(rq, calls, <<>>, ServerError), o.db, o.open)
       ELSE IF ~Truthy(o.ret)
       THEN Step(Answer(rq, calls, <<Flash("Volunteer not found", "error", <<>>)>>,
                        Redirect("view_volunteers")), o.db, o.open)
       ELSE IF method = "POST"
       THEN (IF new_phone = <<>>
             THEN Step(Answer(found, calls,
                              <<Flash("Phone number is required", "error", <<>>)>>,
                              Render("update_volunteer_phone.html", <<o.ret, new_phone>>)),
                       o.db, o.open)
             ELSE IF ~validate_phone(new_phone)
             THEN Step(Answer(found, calls,
                              <<Flash("Please enter a valid phone number", "error", <<>>)>>,
                              Render("update_volunteer_phone.html", <<o.ret, new_phone>>)),
                       o.db, o.open)
             ELSE Step([found EXCEPT !.pc = "write", !.calls = calls], o.db, o.open))
       ELSE Step(Answer(found, calls, <<>>,
                        Render("update_volunteer_phone.html", <<o.ret>>)),
                 o.db, o.open)

\* update_volunteer_contact(), from its second call on.
update_volunteer_contact_write(rq, d, fault) ==
    LET new_phone == Strip(rq.form.phone)
        o == update_volunteer_phone(d, rq.id, new_phone, fault)
        calls == rq.calls \o <<Call("update_volunteer_phone", fault, o)>>
    IN IF o.raised THEN Step(Answer(rq, calls, <<>>, ServerError), o.db, o.open)
       ELSE IF Truthy(o.ret) /\ o.ret.val > 0
       THEN Step(Answer(rq, calls,
                        <<Flash("Phone number updated successfully", "success",
                                <<rq.found.val.first_name, rq.found.val.last_name>>)>>,
                        Redirect("view_volunteers")), o.db, o.open)
       ELSE Step(Answer(rq, calls,
                        <<Flash("Error updating phone number. Please try again.",
                                "error", <<>>)>>,
                        Render("update_volunteer_phone.html", <<rq.found, new_phone>>)),
                 o.db, o.open)

\* delete_event_route(), up to its second call: the lookup.
delete_event_route(event_id, d, fault) ==
    LET rq == Request("delete_event_route", "POST", event_id, EmptyForm)
        o == get_event_by_id(d, event_id, fault)
        calls == <<Call("get_event_by_id", fault, o)>>
    IN IF o.raised THEN Step(Answer(rq, calls, <<>>, ServerError), o.db, o.open)
       ELSE IF ~Truthy(o.ret)
       THEN Step(Answer(rq, calls, <<Flash("Event not found", "error", <<>>)>>,
                        Redirect("view_events")), o.db, o.open)
       ELSE Step([rq EXCEPT !.pc = "write", !.found = o.ret, !.calls = calls],
                 o.db, o.open)

\* delete_event_route(), from its second call on.
delete_event_route_write(rq, d, fault) ==
    LET o == delete_event(d, rq.id, fault)
        calls == rq.calls \o <<Call("delete_event", fault, o)>>
    IN IF o.raised THEN Step(Answer(rq, calls, <<>>, ServerError), o.db, o.open)
       ELSE IF Truthy(o.ret) /\ o.ret.val > 0
       THEN Step(Answer(rq, calls,
                        <<Flash("Event deleted successfully", "success",
                                <<rq.found.val.event_name>>)>>,
                        Redirect("view_events")), o.db, o.open)
       ELSE Step(Answer(rq, calls,
                        <<Flash("Error deleting event. Please try again.", "error", <<>>)>>,
                        Redirect("view_events")), o.db, o.open)

---------------------------------------------------------------------------
(* Reporting queries (deliverable3/database.py).  A query groups its join  *)
(* by a key; the model keeps the key beside each result row to put the     *)
(* rows in the order of ORDER BY (rows that tie come in key order), and    *)
(* returns the rows alone.  The duration_days column of the event          *)
(* statistics is left out.                                                 *)

Rows(sorted) == [i \in 1..Len(sorted) |-> sorted[i].row]

\* A faulty variant: an event is full only above its capacity.
EventStatusStrict(volunteer_count, max_volunteers) ==
    IF volunteer_count > max_volunteers THEN "Full"
    ELSE IF volunteer_count > 0 THEN "Partial"
    ELSE "Empty"

\* CASE WHEN COUNT(ve.volunteer_id) >= e.max_volunteers THEN 'Full'
\*      WHEN COUNT(ve.volunteer_id) > 0 THEN 'Partial' ELSE 'Empty' END
EventStatus(volunteer_count, max_volunteers) ==
    IF volunteer_count >= max_volunteers THEN "Full"
    ELSE IF volunteer_count > 0 THEN "Partial"
    ELSE "Empty"

\* FROM EVENT e JOIN ORGANISATION o ... LEFT JOIN VOLUNTEER_EVENT ve ...
\* GROUP BY e.event_id, ...: one group per event that has its organisation.
EventStatisticsGroups(d) ==
    {LET n == Cardinality({ve \in d.VOLUNTEER_EVENT : ve.event_id = e.event_id})
     IN [key |-> e.event_id,
         row |-> [event_name |-> e.event_name, org_name |-> e.org_name,
                  volunteer_count |-> n, max_volunteers |-> e.max_volunteers,
                  start_date |-> e.start_date,
                  status |-> EventStatus(n, e.max_volunteers)]] :
        e \in EventJoinOrganisation(d)}

\* ORDER BY volunteer_count DESC
EventStatisticsBefore(a, b) ==
    \/ a.row.volunteer_count > b.row.volunteer_count
    \/ a.row.volunteer_count = b.row.volunteer_count /\ a.key < b.key

get_event_statistics(d, fault) ==
    execute_query(d, Stmt(FALSE, Rows(SortSeq(SetToSeq(EventStatisticsGroups(d)), EventStatisticsBefore)),
                          -1, 0, d), TRUE, fault)

RECURSIVE Sum(_, _)
\* The sum of f over the set S.
Sum(f, S) ==
    IF S = {} THEN 0
    ELSE LET x == CHOOSE y \in S : TRUE IN f[x] + Sum(f, S \ {x})

Min(S) == CHOOSE x \in S : \A y \in S : x <= y

\* FROM SKILL s LEFT JOIN VOLUNTEER_SKILL vs ... GROUP BY s.skill_id, ...:
\* one group per skill, those with no volunteer included.  AVG is kept as
\* the pair <<sum, count>>; the aggregates of an empty group are NULL.
SkillGroups(d) ==
    {LET vs == {x \in d.VOLUNTEER_SKILL : x.skill_id = sk.skill_id}
         years == [x \in vs |-> x.years_experience]
     IN [key |-> sk.skill_id,
         row |-> [skill_name |-> sk.skill_name, skill_category |-> sk.skill_category,
                  volunteer_count |-> Cardinality(vs),
                  avg_experience |-> <<Sum(years, vs), Cardinality(vs)>>,
                  max_experience |-> IF vs = {} THEN -1
                                     ELSE Max({x.years_experience : x \in vs}),
                  min_experience |-> IF vs = {} THEN -1
                                     ELSE Min({x.years_experience : x \in vs})]] :
        sk \in d.SKILL}

\* A faulty variant: no HAVING clause.
SkillDistributionGroupsAll(d) == SkillGroups(d)

\* HAVING COUNT(vs.volunteer_id) > 0
SkillDistributionGroups(d) == {g \in SkillGroups(d) : g.row.volunteer_count > 0}

\* ORDER BY volunteer_count DESC, s.skill_category
SkillDistributionBefore(a, b) ==
    \/ a.row.volunteer_count > b.row.volunteer_count
    \/ /\ a.row.volunteer_count = b.row.volunteer_count
       /\ \/ StrLess(a.row.skill_category, b.row.skill_category)
          \/ a.row.skill_category = b.row.skill_category /\ a.key < b.key

get_skill_distribution(d, fault) ==
    execute_query(d, Stmt(FALSE, Rows(SortSeq(SetToSeq(SkillDistributionGroups(d)), SkillDistributionBefore)),
                          -1, 0, d), TRUE, fault)

\* FROM ORGANISATION o LEFT JOIN EVENT e ... LEFT JOIN VOLUNTEER_EVENT ve
\* ... GROUP BY o.org_id, ...: one group per organisation.  An event is in
\* the join once for each of its registrations, and once when it has none;
\* AVG(e.max_volunteers) runs over those rows and is kept as the pair
\* <<sum, count>>, <<0, 0>> being the NULL of an organisation with no event.
OrganisationSummaryGroups(d) ==
    {LET events == {e \in d.EVENT : e.org_id = o.org_id}
         regs == {ve \in d.VOLUNTEER_EVENT :
                     \E e \in events : e.event_id = ve.event_id}
         joined == [e \in events |->
                       LET n == Cardinality({ve \in regs : ve.event_id = e.event_id})
                       IN IF n = 0 THEN 1 ELSE n]
         capacity == [e \in events |-> e.max_volunteers * joined[e]]
     IN [key |-> o.org_id,
         row |-> [org_name |-> o.org_name,
                  total_events |-> Cardinality(events),
                  unique_volunteers |-> Cardinality({ve.volunteer_id : ve \in regs}),
                  total_registrations |-> Cardinality(regs),
                  avg_event_capacity |-> <<Sum(capacity, events), Sum(joined, events)>>]] :
        o \in d.ORGANISATION}

\* ORDER BY total_events DESC, unique_volunteers DESC
OrganisationSummaryBefore(a, b) ==
    \/ a.row.total_events > b.row.total_events
    \/ /\ a.row.total_events = b.row.total_events
       /\ \/ a.row.unique_volunteers > b.row.unique_volunteers
          \/ /\ a.row.unique_volunteers = b.row.unique_volunteers
             /\ a.key < b.key

get_organisation_event_summary(d, fault) ==
    execute_query(d, Stmt(FALSE, Rows(SortSeq(SetToSeq(OrganisationSummaryGroups(d)),
                                              OrganisationSummaryBefore)),
                          -1, 0, d), TRUE, fault)

\* LIKE compares the letters of ASCII without regard to case.
UpperCase ==
    <<"A", "B", "C", "D", "E", "F", "G", "H", "I", "J", "K", "L", "M",
      "N", "O", "P", "Q", "R", "S", "T", "U", "V", "W", "X", "Y", "Z">>
LowerCase ==
    <<"a", "b", "c", "d", "e", "f", "g", "h", "i", "j", "k", "l", "m",
      "n", "o", "p", "q", "r", "s", "t", "u", "v", "w", "x", "y", "z">>

FoldCase(c) ==
    IF \E i \in 1..Len(UpperCase) : UpperCase[i] = c
    THEN LowerCase[CHOOSE i \in 1..Len(UpperCase) : UpperCase[i] = c]
    ELSE c

RECURSIVE Like(_, _)
\* s LIKE pattern: '%' stands for any run of characters, '_' for any one.
Like(s, pattern) ==
    IF pattern = <<>> THEN s = <<>>
    ELSE IF Head(pattern) = "%"
    THEN Like(s, Tail(pattern)) \/ (s # <<>> /\ Like(Tail(s), pattern))
    ELSE /\ s # <<>>
         /\ Head(pattern) = "_" \/ FoldCase(Head(pattern)) = FoldCase(Head(s))
         /\ Like(Tail(s), Tail(pattern))

\* The text order of the proficiency levels.
ProficiencyOrder == <<"Advanced", "Beginner", "Expert", "Intermediate">>
ProficiencyRank(p) == CHOOSE i \in 1..Len(ProficiencyOrder) : ProficiencyOrder[i] = p

\* SELECT DISTINCT v.volunteer_id, ..., vs.proficiency_level,
\* vs.years_experience FROM VOLUNTEER v JOIN VOLUNTEER_SKILL vs ...
\* JOIN SKILL s ... WHERE s.skill_name LIKE ?: the distinct rows of the
\* select list, which has no column of SKILL in it.
SearchVolunteersBySkillRows(d, skill_name) ==
    {[volunteer_id |-> v.volunteer_id, first_name |-> v.first_name,
      last_name |-> v.last_name, email |-> v.email, phone |-> v.phone,
      proficiency_level |-> vs.proficiency_level,
      years_experience |-> vs.years_experience] :
        <<v, vs, sk>> \in
            {t \in d.VOLUNTEER \X d.VOLUNTEER_SKILL \X d.SKILL :
                /\ t[1].volunteer_id = t[2].volunteer_id
                /\ t[2].skill_id = t[3].skill_id
                /\ Like(t[3].skill_name, <<"%">> \o skill_name \o <<"%">>)}}

\* ORDER BY vs.proficiency_level DESC, vs.years_experience DESC
SearchBefore(a, b) ==
    \/ ProficiencyRank(a.proficiency_level) > ProficiencyRank(b.proficiency_level)
    \/ /\ a.proficiency_level = b.proficiency_level
       /\ \/ a.years_experience > b.years_experience
          \/ /\ a.years_experience = b.years_experience
             /\ a.volunteer_id < b.volunteer_id

search_volunteers_by_skill(d, skill_name, fault) ==
    execute_query(d, Stmt(FALSE, SortSeq(SetToSeq(SearchVolunteersBySkillRows(d, skill_name)),
                                         SearchBefore),
                          -1, 0, d), TRUE, fault)

---------------------------------------------------------------------------
(* Bounds, seed data and the inputs of the requests.                       *)

MaxVolunteers == 2      \* rows of VOLUNTEER
MaxOpenConns == 1       \* connections left open
NumSlots == 2           \* requests in flight at once
MaxEmailLen == 4        \* length of the strings given to validate_email
MaxAffix == 1           \* free characters before and after a run of digits
MaxRun == 10            \* length of the run of digits
MaxCapacity == 2        \* max_volunteers of an event in the reports

Slots == 1..NumSlots

Today0 == <<2025, 6, 15>>

D_1990_12_31 == <<"1", "9", "9", "0", "-", "1", "2", "-", "3", "1">>
D_2025_06_15 == <<"2", "0", "2", "5", "-", "0", "6", "-", "1", "5">>
D_2025_06_20 == <<"2", "0", "2", "5", "-", "0", "6", "-", "2", "0">>
D_2025_07_01 == <<"2", "0", "2", "5", "-", "0", "7", "-", "0", "1">>
D_2026_01_01 == <<"2", "0", "2", "6", "-", "0", "1", "-", "0", "1">>

Phone_0412345678 == <<"0", "4", "1", "2", "3", "4", "5", "6", "7", "8">>
Phone_0412_345_678 ==
    <<"0", "4", "1", "2", "-", "3", "4", "5", "-", "6", "7", "8">>
Phone_12345 == <<"1", "2", "3", "4", "5">>
Email_c_d_e == <<"c", "@", "d", ".", "e">>
Email_a_b_c == <<"a", "@", "b", ".", "c">>
Email_a_b == <<"a", "@", "b">>

SeedVolunteer ==
    [volunteer_id |-> 1, first_name |-> <<"C", "y">>, last_name |-> <<"N", "g">>,
     date_of_birth |-> D_1990_12_31, email |-> Email_c_d_e,
     phone |-> Phone_0412345678, address |-> <<"2", " ", "R", "d">>]

SeedOrganisations ==
    {[org_id |-> 1, org_name |-> <<"R", "C">>],
     [org_id |-> 2, org_name |-> <<"A", "B">>]}

SeedEvents ==
    {[event_id |-> 1, event_name |-> "Beach Cleanup", start_date |-> D_2025_07_01,
      max_volunteers |-> 2, org_id |-> 1],
     [event_id |-> 2, event_name |-> "Food Drive", start_date |-> D_2025_06_20,
      max_volunteers |-> 1, org_id |-> 2]}

SeedRegistrations ==
    {[volunteer_id |-> 1, event_id |-> e.event_id] : e \in SeedEvents}

\* The databases a run starts from: the seeded organisations and events,
\* with or without a volunteer and that volunteer's registrations.
SeedDatabases ==
    {[VOLUNTEER |-> v, ORGANISATION |-> SeedOrganisations, SKILL |-> {},
      EVENT |-> SeedEvents, VOLUNTEER_EVENT |-> ve, VOLUNTEER_SKILL |-> {},
      tables |-> ExpectedTables] :
        <<v, ve>> \in ({{}} \X {{}}) \cup ({{SeedVolunteer}} \X SUBSET SeedRegistrations)}

FirstNameInputs == {<<>>, <<"A", "l">>, <<" ", "A", "l">>}
LastNameInputs == {<<>>, <<"B", "o">>}
DateOfBirthInputs == {<<>>, <<"x">>, D_1990_12_31, D_2025_06_15, D_2026_01_01}
EmailInputs == {<<>>, Email_a_b, Email_a_b_c}
PhoneInputs == {<<>>, Phone_12345, Phone_0412_345_678}
NewPhoneInputs == {<<>>, Phone_12345, <<" ">> \o Phone_0412_345_678}
AddressInputs == {<<>>, <<"1", " ", "S", "t">>}

CreateForms ==
    [first_name : FirstNameInputs, last_name : LastNameInputs,
     date_of_birth : DateOfBirthInputs, email : EmailInputs,
     phone : PhoneInputs, address : AddressInputs]

PhoneForms == {[EmptyForm EXCEPT !.phone = p] : p \in NewPhoneInputs}

\* A GET request carries no form.
FormsOf(method, forms) == IF method = "GET" THEN {EmptyForm} ELSE forms

\* The faults given to the four calls of the dashboard.
IndexFaults ==
    {f \in [1..4 -> FetchFaults] : \A i \in 2..4 : f[i] \in {"none", "execute"}}

VolunteerIdInputs == 1..(MaxVolunteers + 1)
EventIdInputs == {e.event_id : e \in SeedEvents} \cup {Cardinality(SeedEvents) + 1}

Methods == {"GET", "POST"}

\* All strings over the alphabet A of length n at most.
StringsUpTo(A, n) == UNION {[1..k -> A] : k \in 0..n}

EmailStrings == StringsUpTo({"@", ".", "a"}, MaxEmailLen)

PhoneAlphabet ==
    {"0", "4", "9", "-", " ", "(", ")", "a", "+",
     "SUPERSCRIPT_TWO", "ARABIC_INDIC_FIVE"}

PhoneStrings ==
    {p \o [i \in 1..n |-> "4"] \o q :
        p \in StringsUpTo(PhoneAlphabet, MaxAffix), n \in 0..MaxRun,
        q \in StringsUpTo(PhoneAlphabet, MaxAffix)}

---------------------------------------------------------------------------
(* The application: requests handled one after the other (Spec) and        *)
(* Delete Event requests handled concurrently (SpecConc).                  *)

\* A call of a validation utility that is yet to be made.
Pending(fn, s) == [fn |-> fn, arg |-> s, done |-> FALSE, result |-> FALSE]

AppInit ==
    /\ db \in SeedDatabases
    /\ today = Today0
    /\ openConns = 0
    /\ req = [r \in Slots |-> IdleReq]
    /\ report = [query |-> "none", fault |-> "none", ret |-> None]
    /\ vcall = Pending("none", <<>>)

\* The step h of the request in slot r takes place.
Apply(r, h) ==
    /\ openConns + h.open <= MaxOpenConns
    /\ Cardinality(h.db.VOLUNTEER) <= MaxVolunteers
    /\ req' = [req EXCEPT ![r] = h.req]
    /\ db' = h.db
    /\ openConns' = openConns + h.open
    /\ UNCHANGED <<today, report, vcall>>

\* A fault is an input of the requests that reach create_volunteer only.
NewVolunteerFaults(method, form) ==
    IF method = "POST" /\ NewVolunteerErrors(StripForm(form), today) = <<>>
    THEN WriteFaults ELSE {"none"}

NewVolunteer(r) ==
    /\ req[r].pc = "idle"
    /\ \E method \in Methods :
         \E form \in FormsOf(method, CreateForms) :
           \E fault \in NewVolunteerFaults(method, form) :
             Apply(r, new_volunteer(method, form, db, today, fault))

ViewOrganisations(r) ==
    /\ req[r].pc = "idle"
    /\ \E fault \in FetchFaults : Apply(r, view_organisations(db, fault))

ViewVolunteers(r) ==
    /\ req[r].pc = "idle"
    /\ \E fault \in FetchFaults : Apply(r, view_volunteers(db, fault))

ViewEvents(r) ==
    /\ req[r].pc = "idle"
    /\ \E fault \in FetchFaults : Apply(r, view_events(db, fault))

Index(r) ==
    /\ req[r].pc = "idle"
    /\ \E faults \in IndexFaults : Apply(r, index(db, faults))

UpdateVolunteerContact(r) ==
    /\ req[r].pc = "idle"
    /\ \E method \in Methods, id \in VolunteerIdInputs, fault \in FetchFaults :
         \E form \in FormsOf(method, PhoneForms) :
           Apply(r, update_volunteer_contact(method, id, form, db, fault))

UpdateVolunteerContactWrite(r) ==
    /\ req[r].pc = "write"
    /\ req[r].kind = "update_volunteer_contact"
    /\ \E fault \in WriteFaults :
           Apply(r, update_volunteer_contact_write(req[r], db, fault))

DeleteEventRoute(r) ==
    /\ req[r].pc = "idle"
    /\ \E id \in EventIdInputs, fault \in FetchFaults :
           Apply(r, delete_event_route(id, db, fault))

DeleteEventRouteWrite(r) ==
    /\ req[r].pc = "write"
    /\ req[r].kind = "delete_event_route"
    /\ \E fault \in WriteFaults :
           Apply(r, delete_event_route_write(req[r], db, fault))

\* The response is sent; the slot takes the next request.
Finish(r) ==
    /\ req[r].pc = "done"
    /\ req' = [req EXCEPT ![r] = IdleReq]
    /\ UNCHANGED <<db, today, openConns, report, vcall>>

Next ==
    \/ NewVolunteer(1)
    \/ ViewOrganisations(1)
    \/ ViewVolunteers(1)
    \/ ViewEvents(1)
    \/ Index(1)
    \/ UpdateVolunteerContact(1)
    \/ UpdateVolunteerContactWrite(1)
    \/ DeleteEventRoute(1)
    \/ DeleteEventRouteWrite(1)
    \/ Finish(1)

Spec == AppInit /\ [][Next]_vars

\* Delete Event requests handled at once, one in each slot and no other
\* after it.
NextConc ==
    \E r \in Slots :
        \/ DeleteEventRoute(r)
        \/ DeleteEventRouteWrite(r)

SpecConc == AppInit /\ [][NextConc]_vars

---------------------------------------------------------------------------
(* The validation utilities on their own.                                  *)

ValidateInit ==
    /\ db \in {d \in SeedDatabases : d.VOLUNTEER = {}}
    /\ today = Today0
    /\ openConns = 0
    /\ req = [r \in Slots |-> IdleReq]
    /\ report = [query |-> "none", fault |-> "none", ret |-> None]
    /\ vcall \in {Pending("validate_email", s) : s \in EmailStrings}
                 \cup {Pending("validate_phone", s) : s \in PhoneStrings}

CallValidateEmail ==
    /\ vcall.fn = "validate_email" /\ ~vcall.done
    /\ vcall' = [vcall EXCEPT !.done = TRUE, !.result = validate_email(vcall.arg)]
    /\ UNCHANGED <<db, today, openConns, req, report>>

CallValidatePhone ==
    /\ vcall.fn = "validate_phone" /\ ~vcall.done
    /\ vcall' = [vcall EXCEPT !.done = TRUE, !.result = validate_phone(vcall.arg)]
    /\ UNCHANGED <<db, today, openConns, req, report>>

NextValidate == CallValidateEmail \/ CallValidatePhone

SpecValidate == ValidateInit /\ [][NextValidate]_vars

---------------------------------------------------------------------------
(* The reporting queries, run on databases of two volunteers, two events   *)
(* and three skills with any registrations or any skill records.           *)

ReportVolunteers ==
    {SeedVolunteer,
     [volunteer_id |-> 2, first_name |-> <<"A", "l">>, last_name |-> <<"B", "o">>,
      date_of_birth |-> D_1990_12_31, email |-> Email_a_b_c,
      phone |-> Phone_0412_345_678, address |-> <<"1", " ", "S", "t">>]}

ReportSkills ==
    {[skill_id |-> 1, skill_name |-> <<"C", "o", "o", "k">>, skill_category |-> <<"M", "e", "d">>],
     [skill_id |-> 2, skill_name |-> <<"B", "a", "k", "e">>, skill_category |-> <<"O", "p", "s">>],
     [skill_id |-> 3, skill_name |-> <<"B", "o", "o", "k">>, skill_category |-> <<"O", "p", "s">>]}

ReportRegistrations ==
    {[volunteer_id |-> v.volunteer_id, event_id |-> e.event_id] :
        v \in ReportVolunteers, e \in SeedEvents}

ReportVolunteerSkills ==
    {[volunteer_id |-> 1, skill_id |-> 1, proficiency_level |-> "Advanced",
      years_experience |-> 5],
     [volunteer_id |-> 2, skill_id |-> 1, proficiency_level |-> "Beginner",
      years_experience |-> 1],
     [volunteer_id |-> 1, skill_id |-> 2, proficiency_level |-> "Advanced",
      years_experience |-> 5],
     [volunteer_id |-> 2, skill_id |-> 2, proficiency_level |-> "Intermediate",
      years_experience |-> 2]}

\* The seeded events, each with any capacity up to MaxCapacity and held by
\* either organisation.
ReportEvents ==
    {{[e EXCEPT !.max_volunteers = cap[e.event_id], !.org_id = org[e.event_id]] :
          e \in SeedEvents} :
        cap \in [{e.event_id : e \in SeedEvents} -> 0..MaxCapacity],
        org \in [{e.event_id : e \in SeedEvents} ->
                    {o.org_id : o \in SeedOrganisations}]}

\* The queries on events read no skill record and the queries on skills
\* no event: the registrations vary while no skill is held, and the skill
\* records vary while the events are the seeded ones with no registration.
ReportDatabases ==
    [VOLUNTEER : {ReportVolunteers}, ORGANISATION : {SeedOrganisations},
     SKILL : {ReportSkills}, EVENT : ReportEvents,
     VOLUNTEER_EVENT : SUBSET ReportRegistrations,
     VOLUNTEER_SKILL : {{}},
     tables : {ExpectedTables}]
    \cup
    [VOLUNTEER : {ReportVolunteers}, ORGANISATION : {SeedOrganisations},
     SKILL : {ReportSkills}, EVENT : {SeedEvents},
     VOLUNTEER_EVENT : {{}},
     VOLUNTEER_SKILL : SUBSET ReportVolunteerSkills,
     tables : {ExpectedTables}]

NoReport == [query |-> "none", arg |-> <<>>, fault |-> "none", ret |-> None]

\* The strings searched for: none, letters in either case, a wildcard.
SearchInputs == {<<>>, <<"k">>, <<"o", "o">>, <<"c">>, <<"_">>}

ReportInit ==
    /\ db \in ReportDatabases
    /\ today = Today0
    /\ openConns = 0
    /\ req = [r \in Slots |-> IdleReq]
    /\ report = NoReport
    /\ vcall = Pending("none", <<>>)

\* The query is run and its result kept in report.
RunReport(query, arg, fault, o) ==
    /\ report.query = "none"
    /\ openConns + o.open <= MaxOpenConns
    /\ report' = [query |-> query, arg |-> arg, fault |-> fault, ret |-> o.ret]
    /\ db' = o.db
    /\ openConns' = openConns + o.open
    /\ UNCHANGED <<today, req, vcall>>

GetEventStatistics ==
    \E fault \in FetchFaults :
        RunReport("get_event_statistics", <<>>, fault, get_event_statistics(db, fault))

GetSkillDistribution ==
    \E fault \in FetchFaults :
        RunReport("get_skill_distribution", <<>>, fault, get_skill_distribution(db, fault))

\* The caller is done with the result.
DropReport ==
    /\ report.query # "none"
    /\ report' = NoReport
    /\ UNCHANGED <<db, today, openConns, req, vcall>>

SearchVolunteersBySkill ==
    \E skill_name \in SearchInputs, fault \in FetchFaults :
        RunReport("search_volunteers_by_skill", skill_name, fault,
                  search_volunteers_by_skill(db, skill_name, fault))

GetOrganisationEventSummary ==
    \E fault \in FetchFaults :
        RunReport("get_organisation_event_summary", <<>>, fault,
                  get_organisation_event_summary(db, fault))

NextReport ==
    \/ GetEventStatistics
    \/ GetOrganisationEventSummary
    \/ GetSkillDistribution
    \/ SearchVolunteersBySkill
    \/ DropReport

SpecReport == ReportInit /\ [][NextReport]_vars

---------------------------------------------------------------------------
(* Properties.                                                             *)

\* In this step the request in slot r gets its answer.
Answers(r, kind) ==
    req[r].pc # "done" /\ req'[r].pc = "done" /\ req'[r].kind = kind

NoFault(calls) == \A i \in 1..Len(calls) : calls[i].fault = "none"

HasFlash(rq, msg, category) ==
    \E i \in 1..Len(rq.flashes) :
        rq.flashes[i].msg = msg /\ rq.flashes[i].category = category

VolunteerRow(id, f) ==
    [volunteer_id |-> id, first_name |-> f.first_name, last_name |-> f.last_name,
     date_of_birth |-> f.date_of_birth, email |-> f.email, phone |-> f.phone,
     address |-> f.address]

AllPresent(f) ==
    /\ f.first_name # <<>> /\ f.last_name # <<>> /\ f.date_of_birth # <<>>
    /\ f.email # <<>> /\ f.phone # <<>> /\ f.address # <<>>

BeforeToday(date_of_birth) ==
    strptime(date_of_birth).ok /\ DateLess(strptime(date_of_birth).date, today)

\* What C1 promises of the step in which a request rq with the stored
\* field values f is answered: one row added, its id returned, and the row
\* listed with the values f.
CreatedAndListed(rq, f) ==
    /\ Len(rq.calls) = 1
    /\ rq.calls[1].op = "create_volunteer"
    /\ rq.calls[1].ret.tag = "int"
    /\ LET id == rq.calls[1].ret.val
           listed == get_all_volunteers(db', "none").ret.val
       IN /\ db.VOLUNTEER \subseteq db'.VOLUNTEER
          /\ Cardinality(db'.VOLUNTEER \ db.VOLUNTEER) = 1
          /\ \A row \in db'.VOLUNTEER \ db.VOLUNTEER : row.volunteer_id = id
          /\ Cardinality({i \in 1..Len(listed) : listed[i].volunteer_id = id}) = 1
          /\ \E i \in 1..Len(listed) : listed[i] = VolunteerRow(id, f)

\* C1 as stated: a Create Volunteer submission with all six fields present,
\* a valid email and phone and a date of birth before today, handled with
\* no storage fault, adds exactly one row, returns its id, and the list of
\* volunteers then holds a record of that id with exactly the submitted
\* values.  (Fails: the handler stores the values stripped of whitespace.)
C1_CreateStoresSubmittedValues ==
    [][\A r \in Slots :
          LET rq == req'[r]
              f == StripForm(rq.form)
          IN (/\ Answers(r, "new_volunteer") /\ rq.method = "POST"
              /\ AllPresent(f)
              /\ validate_email(rq.form.email) /\ validate_phone(rq.form.phone)
              /\ BeforeToday(f.date_of_birth)
              /\ NoFault(rq.calls))
             => CreatedAndListed(rq, rq.form)]_vars

\* C1 amended: ... and the list of volunteers then holds a record of that
\* id with the submitted values stripped of leading and trailing
\* whitespace.
C1_CreateStoresStrippedValues ==
    [][\A r \in Slots :
          LET rq == req'[r]
              f == StripForm(rq.form)
          IN (/\ Answers(r, "new_volunteer") /\ rq.method = "POST"
              /\ AllPresent(f)
              /\ validate_email(f.email) /\ validate_phone(f.phone)
              /\ BeforeToday(f.date_of_birth)
              /\ NoFault(rq.calls))
             => CreatedAndListed(rq, f)]_vars

\* A volunteer submitted as " Al" was created and is stored as "Al".
C1_Witness ==
    \E r \in Slots :
        /\ req[r].pc = "done" /\ req[r].kind = "new_volunteer"
        /\ req[r].resp = Redirect("view_volunteers")
        /\ req[r].form.first_name = <<" ", "A", "l">>
        /\ \E row \in db.VOLUNTEER :
               /\ IntV(row.volunteer_id) = req[r].calls[1].ret
               /\ row.first_name = <<"A", "l">>

\* C2: a Create Volunteer submission whose date of birth is today or later,
\* whatever the other fields, is answered with the form and the message
\* that the date must be in the past; create_volunteer is not called and
\* VOLUNTEER is unchanged.
C2_DateOfBirthNotBeforeTodayRejected ==
    [][\A r \in Slots :
          LET rq == req'[r]
              p == strptime(Strip(rq.form.date_of_birth))
          IN (/\ Answers(r, "new_volunteer") /\ rq.method = "POST"
              /\ p.ok /\ ~DateLess(p.date, today))
             => /\ rq.resp.kind = "render"
                /\ rq.resp.target = "new_volunteer.html"
                /\ HasFlash(rq, "Date of birth must be in the past", "error")
                /\ rq.calls = <<>>
                /\ db'.VOLUNTEER = db.VOLUNTEER]_vars

\* A submission valid in every field but a date of birth after today was
\* answered.
C2_Witness ==
    \E r \in Slots :
        /\ req[r].pc = "done" /\ req[r].kind = "new_volunteer"
        /\ req[r].method = "POST"
        /\ req[r].form.date_of_birth = D_2026_01_01
        /\ req[r].form.first_name # <<>> /\ req[r].form.last_name # <<>>
        /\ req[r].form.address # <<>>
        /\ validate_email(req[r].form.email) /\ validate_phone(req[r].form.phone)
        /\ Len(req[r].flashes) = 1

\* C3: an Update Volunteer Phone request, GET or POST and whatever phone it
\* submits, whose id matches no row of VOLUNTEER is answered at once with
\* the not-found redirect to the volunteer list; update_volunteer_phone is
\* not called and the database is unchanged.
C3_UnknownVolunteerNotFound ==
    [][\A r \in Slots :
          (/\ req[r].pc = "idle"
           /\ req'[r].kind = "update_volunteer_contact"
           /\ \A v \in db.VOLUNTEER : v.volunteer_id # req'[r].id)
          => /\ req'[r].pc = "done"
             /\ req'[r].resp = Redirect("view_volunteers")
             /\ req'[r].flashes = <<Flash("Volunteer not found", "error", <<>>)>>
             /\ \A i \in 1..Len(req'[r].calls) :
                    req'[r].calls[i].op # "update_volunteer_phone"
             /\ db' = db]_vars

\* A POST with a valid phone for an id that is in no row was answered.
C3_Witness ==
    \E r \in Slots :
        /\ req[r].pc = "done" /\ req[r].kind = "update_volunteer_contact"
        /\ req[r].method = "POST"
        /\ validate_phone(Strip(req[r].form.phone))
        /\ \A v \in db.VOLUNTEER : v.volunteer_id # req[r].id
        /\ NoFault(req[r].calls)
        /\ req[r].resp = Redirect("view_volunteers")

\* C4 as stated: delete_event(id) for an id in EVENT, registrations or not,
\* removes exactly that row and returns 1; delete_event(id) right after,
\* the row being gone, returns 0, raises nothing and leaves the database as
\* it is.  (No storage fault is injected into either call.)
C4_DeleteReturnsOneThenZero ==
    [][\A r \in Slots :
          LET c == Last(req'[r].calls)
              hit == {e \in db.EVENT : e.event_id = req[r].id}
          IN (/\ req[r].pc = "write" /\ Answers(r, "delete_event_route")
              /\ c.fault = "none")
             => /\ ~c.raised
                /\ hit # {} => /\ c.ret = IntV(1)
                               /\ Cardinality(hit) = 1
                               /\ db'.EVENT = db.EVENT \ hit
                /\ hit = {} => c.ret = IntV(0) /\ db' = db]_vars

RegistrationsOf(event_name) ==
    Cardinality({ve \in db.VOLUNTEER_EVENT :
                    \E e \in db.EVENT :
                        e.event_id = ve.event_id /\ e.event_name = event_name})

\* C5 as stated: every row of the event statistics counts the rows of
\* VOLUNTEER_EVENT of its event and is labelled "Full" when count >=
\* max_volunteers, "Partial" when 0 < count < max_volunteers and "Empty"
\* when count = 0, max_volunteers = 0 included.
C5_StatusLabels ==
    (report.query = "get_event_statistics" /\ report.ret.tag = "rows")
    => \A i \in 1..Len(report.ret.val) :
           LET row == report.ret.val[i]
               n == row.volunteer_count
               m == row.max_volunteers
           IN /\ n = RegistrationsOf(row.event_name)
              /\ n >= m => row.status = "Full"
              /\ (0 < n /\ n < m) => row.status = "Partial"
              /\ n = 0 => row.status = "Empty"

\* C5 amended: ... "Full" when count >= max_volunteers, "Partial" when
\* 0 < count < max_volunteers, "Empty" when count = 0 < max_volunteers; an
\* event with no registration and max_volunteers = 0 is labelled "Full".
C5_StatusLabelsFullFirst ==
    (report.query = "get_event_statistics" /\ report.ret.tag = "rows")
    => \A i \in 1..Len(report.ret.val) :
           LET row == report.ret.val[i]
               n == row.volunteer_count
               m == row.max_volunteers
           IN /\ n = RegistrationsOf(row.event_name)
              /\ n >= m => row.status = "Full"
              /\ (0 < n /\ n < m) => row.status = "Partial"
              /\ (n = 0 /\ 0 < m) => row.status = "Empty"

\* The statistics hold an event with no registration and no capacity, one
\* that is partly filled and one with no registration and some capacity.
C5_Witness ==
    /\ report.query = "get_event_statistics" /\ report.ret.tag = "rows"
    /\ Len(report.ret.val) = 2
    /\ \E i, j \in 1..2 :
           /\ report.ret.val[i].volunteer_count = 0
           /\ report.ret.val[i].max_volunteers = 0
           /\ report.ret.val[i].status = "Full"
           /\ report.ret.val[j].volunteer_count = 1
           /\ report.ret.val[j].max_volunteers = 2
           /\ report.ret.val[j].status = "Partial"

SkillsWithVolunteers ==
    {sk \in db.SKILL : \E vs \in db.VOLUNTEER_SKILL : vs.skill_id = sk.skill_id}

\* C6: the skill distribution holds one row for each skill that has a row
\* in VOLUNTEER_SKILL, and no other row.
C6_SkillDistributionOnlyHeldSkills ==
    (report.query = "get_skill_distribution" /\ report.ret.tag = "rows")
    => LET rows == report.ret.val
       IN /\ Len(rows) = Cardinality(SkillsWithVolunteers)
          /\ {rows[i].skill_name : i \in 1..Len(rows)}
                 = {sk.skill_name : sk \in SkillsWithVolunteers}
          /\ \A i \in 1..Len(rows) : rows[i].volunteer_count > 0

\* The distribution was computed while one skill was held and two were not.
C6_Witness ==
    /\ report.query = "get_skill_distribution" /\ report.ret.tag = "rows"
    /\ Len(report.ret.val) = 1
    /\ Cardinality(db.SKILL \ SkillsWithVolunteers) = 2

IsSeparator(c) == c \in {"-", " ", "(", ")"}

\* C7 as stated: validate_phone(s) is true exactly when s without its '-',
\* ' ', '(' and ')' is not empty, is made of the digits 0-9 only and is at
\* least ten characters long.
C7_ValidatePhoneDecimalDigitsOnly ==
    (vcall.fn = "validate_phone" /\ vcall.done)
    => LET rest == SelectSeq(vcall.arg, LAMBDA c : ~IsSeparator(c))
       IN vcall.result <=> /\ rest # <<>>
                           /\ \A i \in 1..Len(rest) : rest[i] \in DecimalDigits
                           /\ Len(rest) >= 10

\* C8: validate_email(s) is true exactly when s has an '@' and a '.' stands
\* somewhere after the last '@'.
C8_ValidateEmailDotAfterLastAt ==
    (vcall.fn = "validate_email" /\ vcall.done)
    => LET s == vcall.arg
       IN vcall.result <=>
              \E i \in 1..Len(s) :
                  /\ s[i] = "@"
                  /\ \A j \in (i + 1)..Len(s) : s[j] # "@"
                  /\ \E k \in (i + 1)..Len(s) : s[k] = "."

\* A string with an '@' whose only '.' stands before it was refused.
C8_Witness ==
    /\ vcall.fn = "validate_email" /\ vcall.done /\ ~vcall.result
    /\ vcall.arg = <<"a", ".", "@", "a">>

\* C9: whatever the storage fault and wherever it strikes (connect, the
\* PRAGMA, execute, fetch, commit), the call returns None (False for
\* test_database_connection), no sqlite3.Error leaves it, and no request is
\* answered by the 500 handler.
C9_StorageFaultsBecomeSentinels ==
    \A r \in Slots :
        /\ req[r].resp # ServerError
        /\ \A i \in 1..Len(req[r].calls) :
               LET c == req[r].calls[i]
               IN /\ ~c.raised
                  /\ c.fault # "none"
                     => c.ret = IF c.op = "test_database_connection"
                                THEN BoolV(FALSE) ELSE None

\* A commit failed in update_volunteer_phone: the call returned None and
\* the phone was not changed.
C9_Witness ==
    \E r \in Slots :
        /\ req[r].pc = "done"
        /\ \E i \in 1..Len(req[r].calls) :
               /\ req[r].calls[i].op = "update_volunteer_phone"
               /\ req[r].calls[i].fault = "commit"
               /\ req[r].calls[i].ret = None
               /\ db.VOLUNTEER = {SeedVolunteer}

\* A submitted form that fails a presence or a format rule.
InvalidCreateForm(form) ==
    LET f == StripForm(form)
    IN \/ ~AllPresent(f)
       \/ ~validate_email(f.email)
       \/ ~validate_phone(f.phone)
       \/ ~BeforeToday(f.date_of_birth)

InvalidPhoneForm(form) ==
    Strip(form.phone) = <<>> \/ ~validate_phone(Strip(form.phone))

\* C10 as stated: a submitted form that fails a presence or format rule, in
\* Create Volunteer and in Update Volunteer Phone alike, is answered with
\* the form and no data access call, read or write, is made for it.
C10_InvalidFormNoDataAccess ==
    \A r \in Slots :
        LET rq == req[r]
        IN (/\ rq.pc = "done" /\ rq.method = "POST" /\ NoFault(rq.calls)
            /\ \/ rq.kind = "new_volunteer" /\ InvalidCreateForm(rq.form)
               \/ rq.kind = "update_volunteer_contact" /\ InvalidPhoneForm(rq.form))
           => rq.resp.kind = "render" /\ rq.calls = <<>>

\* C10 amended: such a form never leads to a write.  Create Volunteer
\* answers with the form and makes no data access call.  Update Volunteer
\* Phone has made one call, the get_volunteer_by_id that comes before the
\* validation, and answers with the form when that found the volunteer and
\* with the not-found redirect when it did not.
C10_InvalidFormNoWrite ==
    \A r \in Slots :
        LET rq == req[r]
        IN /\ (/\ rq.pc = "done" /\ rq.method = "POST"
               /\ rq.kind = "new_volunteer" /\ InvalidCreateForm(rq.form))
              => /\ rq.resp.kind = "render"
                 /\ rq.resp.target = "new_volunteer.html"
                 /\ rq.calls = <<>>
           /\ (/\ rq.pc # "idle" /\ rq.method = "POST"
               /\ rq.kind = "update_volunteer_contact" /\ InvalidPhoneForm(rq.form))
              => /\ rq.pc = "done"
                 /\ Len(rq.calls) = 1
                 /\ rq.calls[1].op = "get_volunteer_by_id"
                 /\ rq.resp = IF Truthy(rq.calls[1].ret)
                              THEN Render("update_volunteer_phone.html",
                                          <<rq.calls[1].ret, Strip(rq.form.phone)>>)
                              ELSE Redirect("view_volunteers")

\* A phone too short was submitted for a volunteer that exists.
C10_Witness ==
    \E r \in Slots :
        /\ req[r].pc = "done" /\ req[r].method = "POST"
        /\ req[r].kind = "update_volunteer_contact"
        /\ Strip(req[r].form.phone) = Phone_12345
        /\ req[r].resp.kind = "render"
        /\ Truthy(req[r].found)

\* C11: delete_event(id) leaves every table but EVENT as it was, the rows
\* of VOLUNTEER_EVENT that reference the id included, and removes no row of
\* EVENT with another id.
C11_DeleteEventFrame ==
    [][\A r \in Slots :
          (req[r].pc = "write" /\ Answers(r, "delete_event_route"))
          => /\ Last(req'[r].calls).op = "delete_event"
             /\ db'.VOLUNTEER_EVENT = db.VOLUNTEER_EVENT
             /\ db'.VOLUNTEER = db.VOLUNTEER
             /\ db'.ORGANISATION = db.ORGANISATION
             /\ db'.SKILL = db.SKILL
             /\ db'.VOLUNTEER_SKILL = db.VOLUNTEER_SKILL
             /\ db'.EVENT \subseteq db.EVENT
             /\ \A e \in db.EVENT \ db'.EVENT : e.event_id = req[r].id
             /\ Cardinality(db.EVENT \ db'.EVENT) <= 1]_vars

\* An event was deleted while VOLUNTEER_EVENT held rows, which are still
\* there.
C11_Witness ==
    \E r \in Slots :
        /\ req[r].pc = "done" /\ req[r].kind = "delete_event_route"
        /\ Len(req[r].calls) = 2
        /\ req[r].calls[2].op = "delete_event"
        /\ req[r].calls[2].ret = IntV(1)
        /\ \A e \in db.EVENT : e.event_id # req[r].id
        /\ db.VOLUNTEER_EVENT # {}

\* sub stands somewhere in s, letter for letter.
IsSubstring(sub, s) ==
    \E i \in 0..(Len(s) - Len(sub)) : SubSeq(s, i + 1, i + Len(sub)) = sub

\* The rows of VOLUNTEER_SKILL, one per (volunteer, skill) pair, whose
\* skill name contains the string.
MatchingPairs(skill_name) ==
    {vs \in db.VOLUNTEER_SKILL :
        /\ \E v \in db.VOLUNTEER : v.volunteer_id = vs.volunteer_id
        /\ \E sk \in db.SKILL :
               sk.skill_id = vs.skill_id /\ IsSubstring(skill_name, sk.skill_name)}

\* C12 as stated: search_volunteers_by_skill(s) returns one record for each
\* (volunteer, skill) pair of VOLUNTEER_SKILL whose skill name contains s,
\* and no more: as many records as pairs, two for a volunteer who holds two
\* matching skills at the same level and years.
C12_SearchOneRecordPerPair ==
    (report.query = "search_volunteers_by_skill" /\ report.ret.tag = "rows")
    => LET rows == report.ret.val
           pairs == MatchingPairs(report.arg)
       IN /\ Len(rows) = Cardinality(pairs)
          /\ \A vs \in pairs :
                 \E i \in 1..Len(rows) :
                     /\ rows[i].volunteer_id = vs.volunteer_id
                     /\ rows[i].proficiency_level = vs.proficiency_level
                     /\ rows[i].years_experience = vs.years_experience

EventsOf(org_name) ==
    {e \in db.EVENT :
        \E o \in db.ORGANISATION : o.org_id = e.org_id /\ o.org_name = org_name}

\* C13 as stated: for every organisation with an event, avg_event_capacity
\* is the sum of max_volunteers over its events divided by the number of
\* its events, whatever the registrations.  (The quotients are compared by
\* cross-multiplying.)
C13_AverageCapacityPerEvent ==
    (report.query = "get_organisation_event_summary" /\ report.ret.tag = "rows")
    => \A i \in 1..Len(report.ret.val) :
           LET row == report.ret.val[i]
               events == EventsOf(row.org_name)
               capacity == [e \in events |-> e.max_volunteers]
           IN events # {}
              => /\ row.avg_event_capacity[2] > 0
                 /\ row.avg_event_capacity[1] * Cardinality(events)
                        = Sum(capacity, events) * row.avg_event_capacity[2]

\* C14 as stated: every data access call has closed the connection it
\* opened by the time it returns, on every path, the failure of the PRAGMA
\* after connecting included: whatever calls were made and however many
\* failed, no connection is open.
C14_NoConnectionLeftOpen == openConns = 0

\* The request has no form to validate, or its form passes every rule.
PassesValidation(rq) ==
    \/ rq.kind \in {"view_organisations", "view_volunteers", "view_events",
                    "index", "delete_event_route"}
    \/ rq.kind = "new_volunteer" /\ rq.method = "POST" /\ ~InvalidCreateForm(rq.form)
    \/ /\ rq.kind = "update_volunteer_contact" /\ rq.method = "POST"
       /\ ~InvalidPhoneForm(rq.form)

\* The data access functions a request called, in order.
Ops(rq) == [i \in 1..Len(rq.calls) |-> rq.calls[i].op]

\* C15 as stated: a handler whose input passes validation, be it Create
\* Volunteer, Update Volunteer Phone, Delete Event, a list view or the
\* dashboard, has called exactly one data access function when it answers.
C15_ExactlyOneCall ==
    \A r \in Slots :
        (req[r].pc = "done" /\ PassesValidation(req[r]))
        => Len(req[r].calls) = 1

\* C15 amended: Create Volunteer and the list views call one function.
\* Update Volunteer Phone and Delete Event call the lookup first and, when
\* it finds the row, the write: two calls, the answer being the success
\* redirect exactly when the write returns a count above zero.  The
\* dashboard calls four: the connection test and the three lists.
C15_CallsOfEachHandler ==
    \A r \in Slots :
        LET rq == req[r]
            ops == Ops(rq)
            wrote == /\ Len(rq.calls) = 2
                     /\ rq.calls[2].ret.tag = "int"
                     /\ rq.calls[2].ret.val > 0
        IN (rq.pc = "done" /\ PassesValidation(rq))
           => /\ rq.kind = "new_volunteer" => ops = <<"create_volunteer">>
              /\ rq.kind = "view_organisations" => ops = <<"get_all_organisations">>
              /\ rq.kind = "view_volunteers" => ops = <<"get_all_volunteers">>
              /\ rq.kind = "view_events" => ops = <<"get_all_events">>
              /\ rq.kind = "index"
                 => ops = <<"test_database_connection", "get_all_volunteers",
                            "get_all_organisations", "get_all_events">>
              /\ rq.kind = "update_volunteer_contact"
                 => /\ ops = IF Truthy(rq.calls[1].ret)
                             THEN <<"get_volunteer_by_id", "update_volunteer_phone">>
                             ELSE <<"get_volunteer_by_id">>
                    /\ wrote <=> HasFlash(rq, "Phone number updated successfully", "success")
              /\ rq.kind = "delete_event_route"
                 => /\ ops = IF Truthy(rq.calls[1].ret)
                             THEN <<"get_event_by_id", "delete_event">>
                             ELSE <<"get_event_by_id">>
                    /\ wrote <=> HasFlash(rq, "Event deleted successfully", "success")

\* A valid phone was stored for a volunteer that exists, in two calls.
C15_Witness ==
    \E r \in Slots :
        /\ req[r].pc = "done" /\ req[r].kind = "update_volunteer_contact"
        /\ req[r].method = "POST" /\ ~InvalidPhoneForm(req[r].form)
        /\ Len(req[r].calls) = 2
        /\ req[r].calls[2].ret = IntV(1)
        /\ req[r].resp = Redirect("view_volunteers")

\* Two answered Delete Event requests, the only ones for an event that
\* was there when they came, with no storage fault in any call.
DeletedTwice(r1, r2) ==
    /\ r1 # r2
    /\ req[r1].pc = "done" /\ req[r1].kind = "delete_event_route"
    /\ req[r2].pc = "done" /\ req[r2].kind = "delete_event_route"
    /\ req[r1].id = req[r2].id
    /\ \E e \in SeedEvents : e.event_id = req[r1].id
    /\ \A r \in Slots \ {r1, r2} : req[r].pc = "idle" \/ req[r].id # req[r1].id
    /\ NoFault(req[r1].calls) /\ NoFault(req[r2].calls)

Succeeded(rq) == HasFlash(rq, "Event deleted successfully", "success")

\* C16 as stated: of two Delete Event requests for the same existing event,
\* interleaved in any order, the row is removed exactly once: one request
\* reports the success, the other "Event not found" or the delete error,
\* and both are redirected to the event list, neither to the 500 page.
C16_ConcurrentDeleteRemovesOnce ==
    \A r1, r2 \in Slots :
        DeletedTwice(r1, r2)
        => /\ \A e \in db.EVENT : e.event_id # req[r1].id
           /\ Succeeded(req[r1]) # Succeeded(req[r2])
           /\ \A r \in {r1, r2} :
                  /\ req[r].resp = Redirect("view_events")
                  /\ \/ Succeeded(req[r])
                     \/ HasFlash(req[r], "Event not found", "error")
                     \/ HasFlash(req[r], "Error deleting event. Please try again.", "error")

WriteOps == {"create_volunteer", "update_volunteer_phone", "delete_event"}

\* C17: a call of create_volunteer, update_volunteer_phone or delete_event
\* that returns None leaves every table as it was, a statement executed and
\* not committed being undone when the connection is closed.
C17_FailedWriteChangesNothing ==
    [][\A r \in Slots :
          (/\ Len(req'[r].calls) > Len(req[r].calls)
           /\ Last(req'[r].calls).op \in WriteOps
           /\ Last(req'[r].calls).ret = None)
          => db' = db]_vars

\* The commit of a create failed and no volunteer is stored.
C17_Witness ==
    \E r \in Slots :
        /\ req[r].pc = "done" /\ req[r].kind = "new_volunteer"
        /\ Len(req[r].calls) = 1
        /\ req[r].calls[1].op = "create_volunteer"
        /\ req[r].calls[1].fault = "commit"
        /\ req[r].calls[1].ret = None
        /\ db.VOLUNTEER = {}

=============================================================================
